---- MODULE Spec2Model ----
(***************************************************************************)
(* Model of STLWrappers.h: the container-agnostic wrappers find, contains, *)
(* containsAll, containsAny, remove, add, addAll, count and                *)
(* inFirstButNotInSecond over the five container shapes the header         *)
(* overloads on (sequential, set, unordered_set, map, unordered_map).      *)
(*                                                                         *)
(* A container is modelled by the sequence its iteration yields:           *)
(*   vector          any sequence of values                                *)
(*   set             strictly increasing sequence of values                *)
(*   unordered_set   sequence of distinct values, order unspecified        *)
(*   map             sequence of <<key, value>> entries, keys increasing   *)
(*   unordered_map   sequence of entries with distinct keys                *)
(* A position (iterator) is an index 1..Len(c); the end iterator is        *)
(* Len(c) + 1.                                                             *)
(***************************************************************************)
EXTENDS Integers, Sequences, FiniteSets, TLC

VARIABLES shape, C, op, item, kv, items, entries, entry, old, ret, ok, result

vars == <<shape, C, op, item, kv, items, entries, entry, old, ret, ok, result>>

(* ------------------------------ bounds --------------------------------- *)

\* element values and the keys asked for are 1..MaxKey
MaxKey == 3
\* the keys stored in a map are 1..MaxMapKey, its mapped values 1..MaxMapVal
MaxMapKey == 2
MaxMapVal == 2
\* a vector never grows beyond MaxLen elements
MaxLen == 3
\* a batch of items (container or initializer list) has at most MaxItems
\* elements, a batch of key/value entries at most MaxEntryItems
MaxItems == 3
MaxEntryItems == 2
\* bounds of the inputs of inFirstButNotInSecond (SpecDiff)
DiffMaxVal == 5
DiffMaxFirst == 3
DiffMaxSecond == 3

Val == 1..MaxKey
MapKey == 1..MaxMapKey
MapVal == 1..MaxMapVal
Entries == MapKey \X MapVal

Shapes == {"vector", "set", "unordered_set", "map", "unordered_map"}

IsMap(s) == s \in {"map", "unordered_map"}
IsUnique(s) == s # "vector"
IsOrdered(s) == s \in {"set", "map"}

\* value_type of a container of the given shape
ElemsOf(s) == IF IsMap(s) THEN Entries ELSE Val

\* the sequences over S of length at most n
RECURSIVE SeqsUpTo(_, _)
SeqsUpTo(S, n) ==
    IF n = 0 THEN {<<>>}
    ELSE LET shorter == SeqsUpTo(S, n - 1)
         IN  shorter \cup {Append(q, x) : q \in shorter, x \in S}

\* std::end(c)
End(c) == Len(c) + 1

\* the keys of a map in iteration order
Keys(c) == [i \in 1..Len(c) |-> c[i][1]]

(* --------------------------- find (l.30-62) ----------------------------- *)

\* std::find(first, last, value): first position in [i, end) equal to x
RECURSIVE std_find(_, _, _)
std_find(c, i, x) ==
    IF i > Len(c) THEN End(c)
    ELSE IF c[i] = x THEN i
    ELSE std_find(c, i + 1, x)

\* lower bound of key k in the sorted key sequence ks, searched in [lo, hi)
RECURSIVE lower_bound(_, _, _, _)
lower_bound(ks, lo, hi, k) ==
    IF lo >= hi THEN lo
    ELSE LET mid == (lo + hi) \div 2
         IN  IF ks[mid] < k THEN lower_bound(ks, mid + 1, hi, k)
             ELSE lower_bound(ks, lo, mid, k)

\* variant: the lower bound is returned without comparing its key with k
tree_find_lower(ks, k) ==
    LET p == lower_bound(ks, 1, Len(ks) + 1, k)
    IN  IF p <= Len(ks) THEN p ELSE Len(ks) + 1

\* std::set::find / std::map::find on the sorted key sequence ks
tree_find(ks, k) ==
    LET p == lower_bound(ks, 1, Len(ks) + 1, k)
    IN  IF p <= Len(ks) /\ ks[p] = k THEN p ELSE Len(ks) + 1

\* std::unordered_set::find / std::unordered_map::find: the position holding
\* key k, searched through the (unordered) key sequence ks
RECURSIVE hash_find(_, _, _)
hash_find(ks, i, k) ==
    IF i > Len(ks) THEN Len(ks) + 1
    ELSE IF ks[i] = k THEN i
    ELSE hash_find(ks, i + 1, k)

\* Overload resolution of find/count/remove.  isEntry says that ItemType
\* is the container's value_type; for a map that is a key/value pair, which
\* does not match the (map<K,V>, K) overloads, so the generic one is chosen.
Overload(s, isEntry) ==
    IF s = "vector" THEN "generic"
    ELSE IF IsMap(s) /\ isEntry THEN "generic"
    ELSE s

find(s, c, x, isEntry) ==
    CASE Overload(s, isEntry) = "generic"       -> std_find(c, 1, x)
      [] Overload(s, isEntry) = "set"           -> tree_find(c, x)
      [] Overload(s, isEntry) = "unordered_set" -> hash_find(c, 1, x)
      [] Overload(s, isEntry) = "map"           -> tree_find(Keys(c), x)
      [] Overload(s, isEntry) = "unordered_map" -> hash_find(Keys(c), 1, x)

(* ------------------------- contains (l.68-72) --------------------------- *)

contains(s, c, x, isEntry) == find(s, c, x, isEntry) # End(c)

(* ------------------------ containsAll (l.84-106) ------------------------ *)

\* variant: the loop returns after looking at one item
containsAll_first(s, c, its, i, isEntry) ==
    IF i > Len(its) THEN TRUE
    ELSE contains(s, c, its[i], isEntry)

RECURSIVE containsAll_(_, _, _, _, _)
containsAll_(s, c, its, i, isEntry) ==
    IF i > Len(its) THEN TRUE
    ELSE IF ~contains(s, c, its[i], isEntry) THEN FALSE
    ELSE containsAll_(s, c, its, i + 1, isEntry)

containsAll(s, c, its, isEntry) == containsAll_(s, c, its, 1, isEntry)

(* ------------------------ containsAny (l.116-139) ----------------------- *)

\* variant: the loop returns after looking at one item
containsAny_first(s, c, its, i, isEntry) ==
    IF i > Len(its) THEN FALSE
    ELSE contains(s, c, its[i], isEntry)

RECURSIVE containsAny_(_, _, _, _, _)
containsAny_(s, c, its, i, isEntry) ==
    IF i > Len(its) THEN FALSE
    ELSE IF contains(s, c, its[i], isEntry) THEN TRUE
    ELSE containsAny_(s, c, its, i + 1, isEntry)

containsAny(s, c, its, isEntry) == containsAny_(s, c, its, 1, isEntry)

(* --------------------------- count (l.231-263) -------------------------- *)

\* std::count(first, last, value)
RECURSIVE std_count(_, _, _)
std_count(c, i, x) ==
    IF i > Len(c) THEN 0
    ELSE (IF c[i] = x THEN 1 ELSE 0) + std_count(c, i + 1, x)

\* member count(key) of the associative containers: the number of elements
\* whose key is equivalent to k
RECURSIVE key_count(_, _, _)
key_count(ks, i, k) ==
    IF i > Len(ks) THEN 0
    ELSE (IF ks[i] = k THEN 1 ELSE 0) + key_count(ks, i + 1, k)

count(s, c, x, isEntry) ==
    CASE Overload(s, isEntry) = "generic" -> std_count(c, 1, x)
      [] Overload(s, isEntry) \in {"set", "unordered_set"} -> key_count(c, 1, x)
      [] Overload(s, isEntry) \in {"map", "unordered_map"} -> key_count(Keys(c), 1, x)

(* ------------------- native insert / erase primitives ------------------- *)

RemoveAt(c, p) == SubSeq(c, 1, p - 1) \o SubSeq(c, p + 1, Len(c))

InsertAt(c, p, x) == SubSeq(c, 1, p - 1) \o <<x>> \o SubSeq(c, p, Len(c))

\* every iteration order of the elements of c (an unordered container gives
\* no guarantee on its order after an insertion, which may rehash)
Perms(c) ==
    IF Len(c) = 0 THEN {<<>>}
    ELSE {[i \in 1..Len(c) |-> c[p[i]]] : p \in Permutations(1..Len(c))}

\* variant: insert(begin(), x)
vector_insert_front(c, x) == {<<x>> \o c}

\* std::vector::insert(end(), x)
vector_insert(c, x) == {Append(c, x)}

\* variant: the new key is linked in at the hint without regard to order
set_insert_at_hint(c, x) ==
    IF tree_find(c, x) # End(c) THEN {c}
    ELSE {Append(c, x)}

\* std::set::insert(hint, x): no effect when an equivalent key is present
set_insert(c, x) ==
    IF tree_find(c, x) # End(c) THEN {c}
    ELSE {InsertAt(c, lower_bound(c, 1, Len(c) + 1, x), x)}

\* variant: insertion of a multiset, which keeps equivalent keys
unordered_set_insert_multi(c, x) == Perms(Append(c, x))

\* std::unordered_set::insert(hint, x)
unordered_set_insert(c, x) ==
    IF hash_find(c, 1, x) # End(c) THEN {c}
    ELSE Perms(Append(c, x))

\* std::map::insert(hint, <<k, v>>): no effect when key k is present
map_insert(c, e) ==
    IF tree_find(Keys(c), e[1]) # End(c) THEN {c}
    ELSE {InsertAt(c, lower_bound(Keys(c), 1, Len(c) + 1, e[1]), e)}

\* std::unordered_map::insert(hint, <<k, v>>)
unordered_map_insert(c, e) ==
    IF hash_find(Keys(c), 1, e[1]) # End(c) THEN {c}
    ELSE Perms(Append(c, e))

\* variant: inMap.insert({key, value}), which keeps a value already stored
subscript_insert(s, c, k, v) ==
    IF s = "map" THEN map_insert(c, <<k, v>>)
    ELSE unordered_map_insert(c, <<k, v>>)

\* inMap[key] = value: operator[] creates the entry when key is absent and
\* the assignment stores value in it
subscript_assign(s, c, k, v) ==
    LET p == find(s, c, k, FALSE)
    IN  IF p # End(c) THEN {[c EXCEPT ![p] = <<k, v>>]}
        ELSE IF s = "map" THEN map_insert(c, <<k, v>>)
        ELSE unordered_map_insert(c, <<k, v>>)

\* erase(key) of the associative containers
erase_key(s, c, k) ==
    LET p == find(s, c, k, FALSE)
    IN  IF p = End(c) THEN c ELSE RemoveAt(c, p)

(* -------------------------- remove (l.150-182) -------------------------- *)

\* `const ItemType& item` is a reference: to an object outside the container
\* (kind "tmp") or to the element at position idx of the container itself.
TmpRef(x) == [kind |-> "tmp", val |-> x, idx |-> 0]
ElemRef(i) == [kind |-> "elem", val |-> 0, idx |-> i]
Deref(c, r) == IF r.kind = "tmp" THEN r.val ELSE c[r.idx]

\* the shifting loop of std::remove: i scans, out is the write position (`result`)
RECURSIVE remove_loop(_, _, _, _)
remove_loop(c, i, out, r) ==
    IF i > Len(c) THEN <<c, out>>
    ELSE IF c[i] # Deref(c, r)
         THEN remove_loop([c EXCEPT ![out] = c[i]], i + 1, out + 1, r)
         ELSE remove_loop(c, i + 1, out, r)

\* std::remove(begin, end, item): <<contents afterwards, new end>>
std_remove(c, r) ==
    LET first == std_find(c, 1, Deref(c, r))
    IN  IF first = End(c) THEN <<c, first>>
        ELSE remove_loop(c, first + 1, first, r)

\* variant: erase(find(item)), which erases the first occurrence only
remove_first(c, r) ==
    LET p == std_find(c, 1, Deref(c, r))
    IN  IF p = End(c) THEN c ELSE RemoveAt(c, p)

\* remove(), generic overload: erase(new_end_itr, end)
remove_generic(c, r) ==
    LET res == std_remove(c, r)
    IN  SubSeq(res[1], 1, res[2] - 1)

remove(s, c, r) ==
    IF Overload(s, FALSE) = "generic" THEN remove_generic(c, r)
    ELSE erase_key(s, c, Deref(c, r))

(* ---------------------------- add (l.187-198) --------------------------- *)

\* add(inContainer, item): inContainer.insert(std::end(inContainer), item);
\* the set of contents the call can leave
add(s, c, x) ==
    CASE s = "vector"        -> vector_insert(c, x)
      [] s = "set"           -> set_insert(c, x)
      [] s = "unordered_set" -> unordered_set_insert(c, x)
      [] s = "map"           -> map_insert(c, x)
      [] s = "unordered_map" -> unordered_map_insert(c, x)

\* add(inMap, key, value)
addKV(s, c, k, v) == subscript_assign(s, c, k, v)

(* -------------------------- addAll (l.209-222) -------------------------- *)

\* the loop `for (item : items) add(inContainer, item)` from position i on,
\* started from any of the contents cs
RECURSIVE addAll_(_, _, _, _)
addAll_(s, cs, its, i) ==
    IF i > Len(its) THEN cs
    ELSE addAll_(s, UNION {add(s, c, its[i]) : c \in cs}, its, i + 1)

\* variant: the loop starts at the second item
addAll_from_second(s, c, its) == addAll_(s, {c}, its, 2)

addAll(s, c, its) == addAll_(s, {c}, its, 1)

(* ------------------- inFirstButNotInSecond (l.271-303) ------------------ *)

\* variant: the test `!contains` has lost its negation
RECURSIVE inFirstAndInSecond_(_, _, _, _, _)
inFirstAndInSecond_(first, s, second, i, results) ==
    IF i > Len(first) THEN results
    ELSE inFirstAndInSecond_(first, s, second, i + 1,
            IF contains(s, second, first[i], FALSE)
            THEN UNION {unordered_set_insert(r, first[i]) : r \in results}
            ELSE results)

\* the loop of inFirstButNotInSecond_ from position i on; results is an
\* unordered_set
RECURSIVE inFirstButNotInSecond_(_, _, _, _, _)
inFirstButNotInSecond_(first, s, second, i, results) ==
    IF i > Len(first) THEN results
    ELSE inFirstButNotInSecond_(first, s, second, i + 1,
            IF ~contains(s, second, first[i], FALSE)
            THEN UNION {unordered_set_insert(r, first[i]) : r \in results}
            ELSE results)

inFirstButNotInSecond(first, s, second) ==
    inFirstButNotInSecond_(first, s, second, 1, {<<>>})

(* ------------------------- caller-side inputs --------------------------- *)

Increasing(ks) == \A i, j \in 1..Len(ks) : i < j => ks[i] < ks[j]
Distinct(ks) == \A i, j \in 1..Len(ks) : i # j => ks[i] # ks[j]

\* the well-formed containers of shape s with keys in ks, mapped values in
\* ms and at most n elements
Containers(s, ks, ms, n) ==
    CASE s = "vector"        -> SeqsUpTo(ks, n)
      [] s = "set"           -> {c \in SeqsUpTo(ks, n) : Increasing(c)}
      [] s = "unordered_set" -> {c \in SeqsUpTo(ks, n) : Distinct(c)}
      [] s = "map"           -> {c \in SeqsUpTo(ks \X ms, n) : Increasing(Keys(c))}
      [] s = "unordered_map" -> {c \in SeqsUpTo(ks \X ms, n) : Distinct(Keys(c))}

WellFormed(s, c) ==
    CASE s = "vector"        -> TRUE
      [] s = "set"           -> Increasing(c)
      [] s = "unordered_set" -> Distinct(c)
      [] s = "map"           -> Increasing(Keys(c))
      [] s = "unordered_map" -> Distinct(Keys(c))

\* the batches of items a call is given: keys, or entries of a map
KeyBatches == SeqsUpTo(Val, MaxItems)
EntryBatches == SeqsUpTo(Entries, MaxEntryItems)

(* ------------------------------ the calls ------------------------------- *)

\* The caller makes one call at a time.  While op = "idle" no call is being
\* looked at; a call records its name, its arguments, the contents before
\* it and what it returned, and Return drops that record again.
\*   item, items      a key argument, a batch of keys
\*   kv, entries      a key/value argument, a batch of key/value entries
\*   entry            the argument's ItemType is the value_type of a map
\*   ret, ok, result  a returned position or count, bool, unordered_set
Idle == op = "idle"

NoArgs ==
    [item |-> 0, kv |-> <<0, 0>>, items |-> <<>>, entries |-> <<>>,
     entry |-> FALSE, ret |-> 0, ok |-> FALSE, result |-> <<>>]

Call(o, r) ==
    /\ op' = o
    /\ item' = r.item
    /\ kv' = r.kv
    /\ items' = r.items
    /\ entries' = r.entries
    /\ entry' = r.entry
    /\ ret' = r.ret
    /\ ok' = r.ok
    /\ result' = r.result
    /\ old' = C
    /\ shape' = shape

\* a single argument: a key, or an entry of a map
OneArg(x, e) ==
    IF e THEN [NoArgs EXCEPT !.kv = x, !.entry = TRUE]
    ELSE [NoArgs EXCEPT !.item = x]

\* a batch argument: keys, or entries of a map
BatchArg(its, e) ==
    IF e THEN [NoArgs EXCEPT !.entries = its, !.entry = TRUE]
    ELSE [NoArgs EXCEPT !.items = its]

Init ==
    /\ shape \in Shapes
    /\ C = <<>>
    /\ op = "idle"
    /\ item = 0
    /\ kv = <<0, 0>>
    /\ items = <<>>
    /\ entries = <<>>
    /\ entry = FALSE
    /\ old = <<>>
    /\ ret = 0
    /\ ok = FALSE
    /\ result = <<>>

\* find(C, x): x is a key, or (x an entry of a map) a key/value pair
FindCall(x, e) ==
    /\ C' = C
    /\ Call("find", [OneArg(x, e) EXCEPT !.ret = find(shape, C, x, e)])

Find ==
    \/ Idle /\ \E x \in Val : FindCall(x, FALSE)
    \/ Idle /\ IsMap(shape) /\ \E x \in Entries : FindCall(x, TRUE)

ContainsCall(x, e) ==
    /\ C' = C
    /\ Call("contains", [OneArg(x, e) EXCEPT !.ok = contains(shape, C, x, e)])

Contains ==
    \/ Idle /\ \E x \in Val : ContainsCall(x, FALSE)
    \/ Idle /\ IsMap(shape) /\ \E x \in Entries : ContainsCall(x, TRUE)

CountCall(x, e) ==
    /\ C' = C
    /\ Call("count", [OneArg(x, e) EXCEPT !.ret = count(shape, C, x, e)])

Count ==
    \/ Idle /\ \E x \in Val : CountCall(x, FALSE)
    \/ Idle /\ IsMap(shape) /\ \E x \in Entries : CountCall(x, TRUE)

ContainsAllCall(its, e) ==
    /\ C' = C
    /\ Call("containsAll",
            [BatchArg(its, e) EXCEPT !.ok = containsAll(shape, C, its, e)])

ContainsAll ==
    \/ Idle /\ \E its \in KeyBatches : ContainsAllCall(its, FALSE)
    \/ Idle /\ IsMap(shape) /\ \E its \in EntryBatches : ContainsAllCall(its, TRUE)

ContainsAnyCall(its, e) ==
    /\ C' = C
    /\ Call("containsAny",
            [BatchArg(its, e) EXCEPT !.ok = containsAny(shape, C, its, e)])

\* (containsAny is documented and tested with keys only)
ContainsAny == Idle /\ \E its \in KeyBatches : ContainsAnyCall(its, FALSE)

Add ==
    \E x \in ElemsOf(shape) :
        /\ Idle
        /\ shape = "vector" => Len(C) < MaxLen
        /\ C' \in add(shape, C, x)
        /\ Call("add", OneArg(x, IsMap(shape)))

AddKV ==
    \E k \in MapKey, v \in MapVal :
        /\ Idle
        /\ IsMap(shape)
        /\ C' \in addKV(shape, C, k, v)
        /\ Call("addKV", [NoArgs EXCEPT !.kv = <<k, v>>])

AddAll ==
    \E its \in (IF IsMap(shape) THEN EntryBatches ELSE KeyBatches) :
        /\ Idle
        /\ shape = "vector" => Len(C) + Len(its) <= MaxLen
        /\ C' \in addAll(shape, C, its)
        /\ Call("addAll", BatchArg(its, IsMap(shape)))

\* remove(C, x) with x an object that is not an element of C
Remove ==
    \E x \in Val :
        /\ Idle
        /\ C' = remove(shape, C, TmpRef(x))
        /\ Call("remove", OneArg(x, FALSE))

\* remove(v, v[i - 1]): the item is a reference to an element of the
\* vector; item records the value it had when the call started, ret the
\* position it refers to
RemoveRef ==
    \E i \in 1..Len(C) :
        /\ Idle
        /\ shape = "vector"
        /\ C' = remove(shape, C, ElemRef(i))
        /\ Call("removeRef", [NoArgs EXCEPT !.item = C[i], !.ret = i])

\* inFirstButNotInSecond(first, C)
Diff(first) ==
    /\ Idle
    /\ C' = C
    /\ \E r \in inFirstButNotInSecond(first, shape, C) :
          Call("inFirstButNotInSecond",
               [NoArgs EXCEPT !.items = first, !.result = r])

\* the call has returned and the caller goes on
Return ==
    /\ op # "idle"
    /\ op' = "idle"
    /\ item' = 0
    /\ kv' = <<0, 0>>
    /\ items' = <<>>
    /\ entries' = <<>>
    /\ entry' = FALSE
    /\ old' = <<>>
    /\ ret' = 0
    /\ ok' = FALSE
    /\ result' = <<>>
    /\ UNCHANGED <<shape, C>>

Next ==
    \/ Return
    \/ Find
    \/ Contains
    \/ Count
    \/ ContainsAll
    \/ ContainsAny
    \/ Add
    \/ AddKV
    \/ AddAll
    \/ Remove
    \/ RemoveRef

Spec == Init /\ [][Next]_vars

(* ---- inFirstButNotInSecond as a pure function of caller-built inputs --- *)

DiffVal == 1..DiffMaxVal

\* the caller has built second (C, of any shape; a map holds value 1 for
\* each key) and first (items)
InitDiff ==
    /\ shape \in Shapes
    /\ C \in Containers(shape, DiffVal, {1}, DiffMaxSecond)
    /\ items \in SeqsUpTo(DiffVal, DiffMaxFirst)
    /\ op = "idle"
    /\ item = 0
    /\ kv = <<0, 0>>
    /\ entries = <<>>
    /\ entry = FALSE
    /\ old = <<>>
    /\ ret = 0
    /\ ok = FALSE
    /\ result = <<>>

DiffOnce == Diff(items)

NextDiff == DiffOnce

SpecDiff == InitDiff /\ [][NextDiff]_vars

(* ======================================================================= *)
(*                          checked properties                             *)
(* ======================================================================= *)

\* vocabulary of the properties, stated on the iteration sequence and
\* independent of the search the wrappers delegate to
KeyOf(s, e) == IF IsMap(s) THEN e[1] ELSE e
Positions(s, c, k) == {i \in 1..Len(c) : KeyOf(s, c[i]) = k}
Has(s, c, k) == Positions(s, c, k) # {}
Occ(s, c, k) == Cardinality(Positions(s, c, k))
HasElem(c, e) == \E i \in 1..Len(c) : c[i] = e
Without(s, c, k) ==
    LET Keep(e) == KeyOf(s, e) # k
    IN  SelectSeq(c, Keep)
Range(q) == {q[i] : i \in 1..Len(q)}
BatchKeys(s, its) == [i \in 1..Len(its) |-> KeyOf(s, its[i])]
Min(S) == CHOOSE m \in S : \A n \in S : m <= n

\* entry i of the batch its is the one that decides its key: old already
\* holds exactly this entry, or old lacks the key and no earlier entry of
\* the batch has the key with another value
FirstWins(s, o, its, i) ==
    IF Has(s, o, KeyOf(s, its[i])) THEN HasElem(o, its[i])
    ELSE its[Min({j \in 1..Len(its) : KeyOf(s, its[j]) = KeyOf(s, its[i])})] = its[i]

\* the argument of the last call, of whichever type it was
Arg == IF entry THEN kv ELSE item
Batch == IF entry THEN entries ELSE items

(* ------------------------------- C1 ------------------------------------ *)

\* C1 (as claimed): after addAll(C, items), containsAll(C, items) is true
\* for every shape and any prior contents, the items of a map being
\* key/value entries.
C1_AddAllThenContainsAll ==
    op = "addAll" => containsAll(shape, C, Batch, entry)

\* C1 (amended): after addAll(C, items), containsAll(C, items) is true for
\* vector, set and unordered_set; for a map every key of items is contained
\* afterwards, and containsAll on the entries is true exactly when every
\* entry of items is the first one for its key (C did not hold the key
\* with another value, nor does an earlier entry of items).
C1_AddAllThenContainsAll_Amended ==
    op = "addAll" =>
        IF IsMap(shape)
        THEN /\ containsAll(shape, C, BatchKeys(shape, entries), FALSE)
             /\ containsAll(shape, C, entries, TRUE)
                  <=> \A i \in 1..Len(entries) : FirstWins(shape, old, entries, i)
        ELSE containsAll(shape, C, items, FALSE)

\* an addAll whose items share a key with the prior contents
C1_Witness ==
    /\ op = "addAll"
    /\ Len(Batch) >= 2
    /\ Len(old) >= 1
    /\ \E i \in 1..Len(Batch) : Has(shape, old, KeyOf(shape, Batch[i]))
    /\ containsAll(shape, C, Batch, entry)

(* ------------------------------- C2 ------------------------------------ *)

\* C2: immediately after add(C, item), contains(C, item) is true for every
\* shape; for a map, after add of an entry and after add(map, key, value),
\* contains on the key is true.
C2_AddThenContains ==
    /\ op = "add" => contains(shape, C, KeyOf(shape, Arg), FALSE)
    /\ op = "addKV" => contains(shape, C, kv[1], FALSE)

\* an entry added to a map that holds its key with another value
C2_Witness ==
    /\ op = "add"
    /\ IsMap(shape)
    /\ Has(shape, old, kv[1])
    /\ ~HasElem(old, kv)
    /\ Len(old) >= 2

(* ------------------------------- C3 ------------------------------------ *)

\* C3: after remove(C, x), x being an object of its own, contains(C, x) is
\* false; a vector loses every occurrence of x and keeps the other elements
\* in their order, the other shapes lose the one entry with key x and keep
\* the rest; when x is absent C is unchanged.
C3_RemoveThenAbsent ==
    op = "remove" =>
        /\ ~contains(shape, C, item, FALSE)
        /\ C = Without(shape, old, item)
        /\ \A k \in Val \ {item} : Occ(shape, C, k) = Occ(shape, old, k)
        /\ IsUnique(shape) => Len(C) >= Len(old) - 1
        /\ ~Has(shape, old, item) => C = old

\* a vector that held x twice, between other elements
C3_Witness ==
    /\ op = "remove"
    /\ shape = "vector"
    /\ Occ(shape, old, item) = 2
    /\ Len(C) = 1

(* ------------------------------- C4 ------------------------------------ *)

\* C4: in every reachable state and for every item x (a key for maps),
\* contains(C, x) = (count(C, x) > 0), and contains(C, x) is true exactly
\* when find(C, x) is not the end iterator.
C4_ContainsIffCounted ==
    /\ \A x \in Val :
          LET has == contains(shape, C, x, FALSE)
              pos == find(shape, C, x, FALSE)
          IN  /\ has = (count(shape, C, x, FALSE) > 0)
              /\ has = (pos # End(C))
              /\ pos # End(C) => KeyOf(shape, C[pos]) = x
    /\ (op = "contains" /\ ~entry) => ok = (count(shape, C, item, FALSE) > 0)
    /\ (op = "find" /\ ~entry) => (ret # End(C)) = (count(shape, C, item, FALSE) > 0)

\* contains answered false for a key that lies between the two keys of an
\* ordered container
C4_Witness ==
    /\ op = "contains"
    /\ ~entry
    /\ ok = FALSE
    /\ IsOrdered(shape)
    /\ Len(C) = 2
    /\ KeyOf(shape, C[1]) < item
    /\ item < KeyOf(shape, C[2])

(* ------------------------------- C5 ------------------------------------ *)

\* C5: inFirstButNotInSecond(first, second) returns exactly the values of
\* first for which contains(second, value) is false, each of them once, and
\* leaves second as it was; ({1,2,3},{1,4,5}) gives {2,3} and ({1,2,3},{3})
\* gives {1,2}.
C5_Difference ==
    op = "inFirstButNotInSecond" =>
        /\ Range(result) = {x \in Range(items) : ~contains(shape, C, x, FALSE)}
        /\ Range(result) = {x \in Range(items) : ~Has(shape, C, x)}
        /\ Distinct(result)
        /\ C = old
        /\ (items = <<1, 2, 3>> /\ shape = "vector" /\ C = <<1, 4, 5>>)
              => Range(result) = {2, 3}
        /\ (items = <<1, 2, 3>> /\ shape = "vector" /\ C = <<3>>)
              => Range(result) = {1, 2}

\* the call ({1,2,3}, {1,4,5}) has returned its two values
C5_Witness ==
    /\ op = "inFirstButNotInSecond"
    /\ items = <<1, 2, 3>>
    /\ shape = "vector"
    /\ C = <<1, 4, 5>>
    /\ Len(result) = 2

(* ------------------------------- C6 ------------------------------------ *)

\* C6: containsAny(C, items) is false iff items is empty or no element of
\* items satisfies contains(C, element); C is left unmodified.
C6_ContainsAny ==
    op = "containsAny" =>
        /\ (ok = FALSE) <=>
              (\/ Len(items) = 0
               \/ \A i \in 1..Len(items) : ~contains(shape, C, items[i], FALSE))
        /\ (ok = TRUE) <=>
              \E i \in 1..Len(items) : contains(shape, C, items[i], FALSE)
        /\ C = old

\* containsAny answered true although the first of the items is missing
C6_Witness ==
    /\ op = "containsAny"
    /\ ok = TRUE
    /\ Len(items) >= 2
    /\ ~contains(shape, C, items[1], FALSE)

(* ------------------------------- C7 ------------------------------------ *)

\* C7: containsAll(C, items) is true iff every element of items satisfies
\* contains(C, element): true for empty items, blind to repetitions in
\* items (containsAll([..], {1,3,3}) is true whenever 1 and 3 are present)
\* and false as soon as one element is missing.
C7_ContainsAll ==
    op = "containsAll" =>
        /\ (ok = TRUE) <=>
              \A i \in 1..Len(Batch) : contains(shape, C, Batch[i], entry)
        /\ Len(Batch) = 0 => ok = TRUE
        /\ (~entry /\ items = <<1, 3, 3>> /\ Has(shape, C, 1) /\ Has(shape, C, 3))
              => ok = TRUE
        /\ (\E i \in 1..Len(Batch) : ~contains(shape, C, Batch[i], entry))
              => ok = FALSE

\* {1,3,3} asked of a vector that holds 3 only once
C7_Witness ==
    /\ op = "containsAll"
    /\ shape = "vector"
    /\ items = <<1, 3, 3>>
    /\ Occ(shape, C, 3) = 1
    /\ ok = TRUE

(* ------------------------------- C8 ------------------------------------ *)

\* the value a map holds for key k
Lookup(s, c, k) == c[find(s, c, k, FALSE)][2]

\* C8: after add(map, key, value) the key is contained and maps to value,
\* whatever was stored for it before; every other key keeps its value; the
\* size grows by one exactly when the key was absent.
C8_AddKeyValueAssigns ==
    op = "addKV" =>
        /\ contains(shape, C, kv[1], FALSE)
        /\ Lookup(shape, C, kv[1]) = kv[2]
        /\ \A k \in Val \ {kv[1]} :
              /\ contains(shape, C, k, FALSE) = contains(shape, old, k, FALSE)
              /\ contains(shape, old, k, FALSE) =>
                    Lookup(shape, C, k) = Lookup(shape, old, k)
        /\ Len(C) = Len(old) + (IF Has(shape, old, kv[1]) THEN 0 ELSE 1)

\* a key overwritten with another value in a map that holds other keys
C8_Witness ==
    /\ op = "addKV"
    /\ Has(shape, old, kv[1])
    /\ Lookup(shape, old, kv[1]) # kv[2]
    /\ Len(old) >= 2

(* ------------------------------- C9 ------------------------------------ *)

\* C9: in every reachable state count(C, x) is 0 or 1 on set,
\* unordered_set, map and unordered_map; on a vector it is the number of
\* occurrences of x, so adding x once more makes it one greater.
C9_CountRange ==
    /\ \A x \in Val :
          /\ IsUnique(shape) => count(shape, C, x, FALSE) \in {0, 1}
          /\ count(shape, C, x, FALSE) = Occ(shape, C, x)
    /\ (op = "add" /\ shape = "vector") =>
          count(shape, C, item, FALSE) = count(shape, old, item, FALSE) + 1
    /\ (op = "count" /\ ~entry /\ IsUnique(shape)) => ret \in {0, 1}

\* an element added to a set that already holds it
C9_Witness ==
    /\ op = "add"
    /\ shape = "set"
    /\ Has(shape, old, item)
    /\ count(shape, C, item, FALSE) = 1

(* ------------------------------- C10 ----------------------------------- *)

\* add applied once per element, the last element last
RECURSIVE AddEach(_, _, _)
AddEach(s, c, its) ==
    IF Len(its) = 0 THEN {c}
    ELSE UNION {add(s, d, its[Len(its)]) :
                    d \in AddEach(s, c, SubSeq(its, 1, Len(its) - 1))}

\* C10: addAll(C, items) gives what add(C, e) gives when called for each e
\* of items in order; a vector becomes its old contents followed by items;
\* a unique-key container grows by size(items) when the keys of items are
\* distinct and new, and keeps the elements it already had.
C10_AddAllIsRepeatedAdd ==
    op = "addAll" =>
        /\ C \in AddEach(shape, old, Batch)
        /\ shape = "vector" =>
              /\ C = old \o items
              /\ Len(C) = Len(old) + Len(items)
        /\ IsUnique(shape) =>
              /\ (/\ Distinct(BatchKeys(shape, Batch))
                  /\ \A i \in 1..Len(Batch) : ~Has(shape, old, KeyOf(shape, Batch[i])))
                    => Len(C) = Len(old) + Len(Batch)
              /\ \A j \in 1..Len(old) : HasElem(C, old[j])
              /\ Len(C) >= Len(old)

\* two different elements appended to a vector that is not empty
C10_Witness ==
    /\ op = "addAll"
    /\ shape = "vector"
    /\ Len(old) >= 1
    /\ Len(items) = 2
    /\ items[1] # items[2]

(* ------------------------------- C11 ----------------------------------- *)

\* C11: remove(C, item) on a sequential container erases every element
\* equal to the value item had when the call started and keeps the others
\* in order, both when item is an object of its own and when it is a
\* reference to an element of C (remove(v, v[0])): the outcome is fixed by
\* C's contents and that initial value.
C11_RemoveAliasedItem ==
    (op \in {"remove", "removeRef"} /\ shape = "vector") =>
        /\ C = Without(shape, old, item)
        /\ C = remove(shape, old, TmpRef(item))

\* remove(v, v[0]) on a vector that holds the value of v[0] a second time
\* behind a different element
C11_Witness ==
    /\ op = "removeRef"
    /\ shape = "vector"
    /\ ret = 1
    /\ Len(old) = 3
    /\ old[2] # item
    /\ old[3] = item

====
